---- MODULE Spec2Model ----
(***************************************************************************)
(* A model of src/src/RaydiumSwap.ts: one RaydiumSwap instance, the        *)
(* registry endpoint, the Raydium SDK and the Solana node it talks to.     *)
(*                                                                         *)
(* JavaScript values are tagged records, so that undefined, null, arrays   *)
(* and errors can be compared with one another.                            *)
(*                                                                         *)
(* loadPoolKeys is asynchronous and takes no argument: any number of calls *)
(* (up to MaxLoads) may be in flight, and since they are indistinguishable *)
(* they are counted per await point.  The other operations never write the *)
(* instance, so one of them at a time is modelled (variable call), with    *)
(* loadPoolKeys calls interleaving freely between its await points.        *)
(*                                                                         *)
(* The SDK and the node client are not part of the repository: their       *)
(* replies are drawn from small sets, and Liquidity.computeAmountOut,      *)
(* TokenAmount and jsonInfo2PoolKeys are modelled by what they compute.    *)
(*                                                                         *)
(* Three specifications: Spec has every operation; SpecRegistry has        *)
(* loadPoolKeys and findPoolInfoForTokens only; SpecSwap has the quote and *)
(* transaction operations only, started on every pool list a load can      *)
(* leave.  The last two are the two halves of Spec, which do not read each *)
(* other's state apart from the pool list.                                 *)
(***************************************************************************)
EXTENDS Integers, Sequences, FiniteSets, TLC

VARIABLES
    allPoolKeysJson,  \* this.allPoolKeysJson
    connection,       \* this.connection
    wallet,           \* this.wallet
    loadsFetching,    \* loadPoolKeys calls awaiting fetch(...)
    loadsParsing,     \* loadPoolKeys calls awaiting liquidityJsonResp.json()
    lastLoad,         \* how the most recently completed loadPoolKeys call ended
    call              \* the findPoolInfoForTokens / calcAmountOut / getSwapTransaction /
                      \* sendTransaction / simulateTransaction call in progress or last completed

vars == <<allPoolKeysJson, connection, wallet, loadsFetching, loadsParsing, lastLoad, call>>

----------------------------------------------------------------------------
(* Bounds *)

\* longest official / unOfficial array of a registry response
MaxLen == 1
\* most loadPoolKeys calls in flight at once
MaxLoads == 2
\* largest amount argument (in UI units)
MaxAmount == 2

----------------------------------------------------------------------------
(* JavaScript values *)

Undefined == [t |-> "undefined"]
Null == [t |-> "null"]
Arr(s) == [t |-> "array", items |-> s]
Err(name) == [t |-> "error", name |-> name]

\* what a rejected SDK call or RPC call may throw
Errors == {Err("NetworkError"), Err("RpcError")}
\* what a rejected fetch and a rejected json() throw
FetchError == Err("fetch failed")
SyntaxError == Err("SyntaxError")
\* thrown by the runtime on a property access of undefined, and by new PublicKey
TypeError == Err("TypeError")
InvalidPublicKey == Err("Invalid public key input")

SeqsUpTo(S, n) == UNION {[1..k -> S] : k \in 0..n}

----------------------------------------------------------------------------
(* The registry *)

Mints == {"mintA", "mintB", "mintC"}

\* LiquidityPoolJsonInfo: the fields the program reads, and an id
PoolEntries ==
    { [id |-> "pool1", baseMint |-> "mintA", quoteMint |-> "mintB"],
      [id |-> "pool2", baseMint |-> "mintB", quoteMint |-> "mintA"] }

\* an official / unOfficial field of the response: missing, null or an array
PoolArrays == {Undefined, Null} \cup {Arr(s) : s \in SeqsUpTo(PoolEntries, MaxLen)}

\* what liquidityJsonResp.json() may resolve to
RegistryDocs ==
    {Null} \cup { [t |-> "object", official |-> o, unOfficial |-> u] : o, u \in PoolArrays }

\* x?.f
OptField(x, f) == IF x \in {Null, Undefined} THEN Undefined ELSE x[f]

\* x ?? []
OrEmpty(x) == IF x \in {Null, Undefined} THEN <<>> ELSE x.items

\* [...(liquidityJson?.official ?? []), ...(liquidityJson?.unOfficial ?? [])]
MergePoolsUnofficialFirst(liquidityJson) ==
    OrEmpty(OptField(liquidityJson, "unOfficial")) \o OrEmpty(OptField(liquidityJson, "official"))

MergePools(liquidityJson) ==
    OrEmpty(OptField(liquidityJson, "official")) \o OrEmpty(OptField(liquidityJson, "unOfficial"))

\* the instance's pool list once a loadPoolKeys call has taken the `return []` branch
AfterNotOkCleared(list) == Arr(<<>>)

AfterNotOk(list) == list

\* jsonInfo2PoolKeys: every address string becomes a PublicKey
jsonInfo2PoolKeys(poolData) ==
    [t |-> "poolKeys",
     id |-> [pk |-> poolData.id],
     baseMint |-> [pk |-> poolData.baseMint],
     quoteMint |-> [pk |-> poolData.quoteMint]]

\* the predicate of line 36
PoolMatchesOneWay(i, mintA, mintB) ==
    i.baseMint = mintA /\ i.quoteMint = mintB

PoolMatches(i, mintA, mintB) ==
    \/ i.baseMint = mintA /\ i.quoteMint = mintB
    \/ i.baseMint = mintB /\ i.quoteMint = mintA

\* Array.prototype.find: the first element satisfying the predicate, or undefined
ArrayFind(items, mintA, mintB) ==
    LET hits == {k \in 1..Len(items) : PoolMatches(items[k], mintA, mintB)}
    IN  IF hits = {} THEN Undefined
        ELSE items[CHOOSE k \in hits : \A j \in hits : k <= j]

\* findPoolInfoForTokens as a function of the pool list: how it ends and with what
findPoolInfoForTokens(list, mintA, mintB) ==
    IF list = Undefined
    THEN [status |-> "threw", value |-> TypeError]
    ELSE LET poolData == ArrayFind(list.items, mintA, mintB)
         IN  IF poolData = Undefined
             THEN [status |-> "returned", value |-> Null]
             ELSE [status |-> "returned", value |-> jsonInfo2PoolKeys(poolData)]

----------------------------------------------------------------------------
(* The chain and the SDK, as the program sees them *)

\* fromToken / toToken address strings handed to new PublicKey: the two mints either
\* way round, and each side in turn not a base58 address
TokenPairs ==
    { <<"mintA", "mintB">>, <<"mintB", "mintA">>, <<"notBase58", "mintB">>,
      <<"mintA", "notBase58">> }

IsPublicKeyInput(s) == s \in Mints

PublicKey(s) == [pk |-> s]

\* LiquidityPoolKeys values a caller may hold
PoolKeysArgs == {jsonInfo2PoolKeys(e) : e \in PoolEntries}

\* decimals of each mint, a fact of the chain
MintDecimals(mint) ==
    CASE mint = "mintA" -> 0
      [] mint = "mintB" -> 1
      [] OTHER -> 2

\* what Liquidity.fetchInfo may resolve to for a pool: its mints' decimals and its reserves
PoolInfos(poolKeys) ==
    { [baseDecimals |-> MintDecimals(poolKeys.baseMint.pk),
       quoteDecimals |-> MintDecimals(poolKeys.quoteMint.pk),
       baseReserve |-> r.base,
       quoteReserve |-> r.quote] :
      r \in {[base |-> 1000, quote |-> 3000], [base |-> 400, quote |-> 50]} }

Pow10(n) == IF n = 0 THEN 1 ELSE IF n = 1 THEN 10 ELSE 100

CeilDiv(a, b) == (a + b - 1) \div b

\* new Token(TOKEN_PROGRAM_ID, mint, decimals)
Token(mint, decimals) == [programId |-> "TOKEN_PROGRAM_ID", mint |-> mint, decimals |-> decimals]

\* new TokenAmount(token, amount, isRaw): a UI amount is scaled by the token's decimals
TokenAmount(token, amount, isRaw) ==
    [token |-> token, raw |-> IF isRaw THEN amount ELSE amount * Pow10(token.decimals)]

\* new Percent(numerator, denominator)
Percent(numerator, denominator) == [numerator |-> numerator, denominator |-> denominator]

\* Liquidity.computeAmountOut: constant product on the reserves of the input's side,
\* after the pool's 0.25% fee; minAmountOut = amountOut / (1 + slippage)
computeAmountOut(p) ==
    LET inIsBase == p.amountIn.token.mint = p.poolKeys.baseMint
        reserveIn == IF inIsBase THEN p.poolInfo.baseReserve ELSE p.poolInfo.quoteReserve
        reserveOut == IF inIsBase THEN p.poolInfo.quoteReserve ELSE p.poolInfo.baseReserve
        feeRaw == CeilDiv(p.amountIn.raw * 25, 10000)
        amountInWithFee == p.amountIn.raw - feeRaw
        amountOutRaw == (reserveOut * amountInWithFee) \div (reserveIn + amountInWithFee)
        minAmountOutRaw ==
            (amountOutRaw * p.slippage.denominator)
                \div (p.slippage.denominator + p.slippage.numerator)
    IN  [amountOut |-> TokenAmount(p.currencyOut, amountOutRaw, TRUE),
         minAmountOut |-> TokenAmount(p.currencyOut, minAmountOutRaw, TRUE),
         currentPrice |-> [numerator |-> reserveOut, denominator |-> reserveIn],
         executionPrice |-> [numerator |-> amountOutRaw, denominator |-> p.amountIn.raw],
         priceImpact |-> [numerator |-> amountInWithFee,
                          denominator |-> reserveIn + amountInWithFee],
         fee |-> TokenAmount(p.amountIn.token, feeRaw, TRUE)]

\* what Liquidity.makeSwapInstructionSimple may resolve to: the instruction list of
\* its first inner transaction may hold empty slots
Ix(name) == [t |-> "instruction", name |-> name]

SwapTransactions ==
    { [innerTransactions |-> <<[instructions |-> ixs]>>] :
      ixs \in { <<Ix("swap")>>, <<Ix("setComputeUnitPrice"), Null, Ix("swap")>> } }

\* what connection.getLatestBlockhash may resolve to
LatestBlockhashes ==
    { [blockhash |-> "hash1", lastValidBlockHeight |-> 101],
      [blockhash |-> "hash2", lastValidBlockHeight |-> 102] }

\* what connection.sendTransaction / simulateTransaction may resolve to
TxIds == {[t |-> "string", s |-> "signature1"]}

SimulationResults == { [value |-> [err |-> Null]], [value |-> [err |-> Err("InstructionError")]] }

----------------------------------------------------------------------------
(* calcAmountOut, after poolInfo has been fetched *)

\* lines 117-127: which mint and decimals are the input and which the output
SelectCurrenciesMixed(poolKeys, poolInfo, swapInDirection) ==
    IF swapInDirection
    THEN [currencyInMint |-> poolKeys.baseMint, currencyInDecimals |-> poolInfo.baseDecimals,
          currencyOutMint |-> poolKeys.quoteMint, currencyOutDecimals |-> poolInfo.quoteDecimals]
    ELSE [currencyInMint |-> poolKeys.quoteMint, currencyInDecimals |-> poolInfo.baseDecimals,
          currencyOutMint |-> poolKeys.baseMint, currencyOutDecimals |-> poolInfo.quoteDecimals]

SelectCurrencies(poolKeys, poolInfo, swapInDirection) ==
    IF ~swapInDirection
    THEN [currencyInMint |-> poolKeys.quoteMint, currencyInDecimals |-> poolInfo.quoteDecimals,
          currencyOutMint |-> poolKeys.baseMint, currencyOutDecimals |-> poolInfo.baseDecimals]
    ELSE [currencyInMint |-> poolKeys.baseMint, currencyInDecimals |-> poolInfo.baseDecimals,
          currencyOutMint |-> poolKeys.quoteMint, currencyOutDecimals |-> poolInfo.quoteDecimals]

\* line 132
Slippage == Percent(5, 100)

\* lines 129-141: the argument of Liquidity.computeAmountOut
ComputeArgs(poolKeys, poolInfo, rawAmountIn, swapInDirection) ==
    LET c == SelectCurrencies(poolKeys, poolInfo, swapInDirection)
        currencyIn == Token(c.currencyInMint, c.currencyInDecimals)
    IN  [poolKeys |-> poolKeys,
         poolInfo |-> poolInfo,
         amountIn |-> TokenAmount(currencyIn, rawAmountIn, FALSE),
         currencyOut |-> Token(c.currencyOutMint, c.currencyOutDecimals),
         slippage |-> Slippage]

\* lines 134-151: the object calcAmountOut returns
calcAmountOut(poolKeys, poolInfo, rawAmountIn, swapInDirection) ==
    LET p == ComputeArgs(poolKeys, poolInfo, rawAmountIn, swapInDirection)
        q == computeAmountOut(p)
    IN  [amountIn |-> p.amountIn,
         amountOut |-> q.amountOut,
         minAmountOut |-> q.minAmountOut,
         currentPrice |-> q.currentPrice,
         executionPrice |-> q.executionPrice,
         priceImpact |-> q.priceImpact,
         fee |-> q.fee]

----------------------------------------------------------------------------
(* getSwapTransaction, sendTransaction, simulateTransaction: the pure parts *)

\* maxLamports: number = 100000
DefaultMaxLamports == 100000

MaxLamportsArgs == {Undefined, [t |-> "number", n |-> 25000]}

DefaultParam(x, d) == IF x = Undefined THEN d ELSE x.n

\* line 45: the direction getSwapTransaction quotes in
QuoteDirectionByToken(fromToken, toToken, poolKeys) == PublicKey(fromToken) = poolKeys.baseMint

QuoteDirection(fromToken, toToken, poolKeys) == FALSE

\* lines 103-112
getTokenAccountByOwnerAndMint(mint) ==
    [programId |-> "TOKEN_PROGRAM_ID",
     pubkey |-> PublicKey("11111111111111111111111111111111"),
     accountInfo |-> [mint |-> mint, amount |-> 0]]

\* lines 50-69: the argument of Liquidity.makeSwapInstructionSimple
SwapParamsAmountOut(conn, wal, poolKeys, fromToken, toToken, quote, maxLamports) ==
    [connection |-> conn,
     makeTxVersion |-> 1,
     poolKeys |-> poolKeys,
     userKeys |-> [tokenAccounts |-> <<getTokenAccountByOwnerAndMint(PublicKey(fromToken)),
                                       getTokenAccountByOwnerAndMint(PublicKey(toToken))>>,
                   owner |-> wal.publicKey],
     amountIn |-> quote.amountIn,
     amountOut |-> quote.amountOut,
     fixedSide |-> "in",
     config |-> [bypassAssociatedCheck |-> FALSE],
     computeBudgetConfig |-> [microLamports |-> maxLamports]]

SwapParams(conn, wal, poolKeys, fromToken, toToken, quote, maxLamports) ==
    [connection |-> conn,
     makeTxVersion |-> 1,
     poolKeys |-> poolKeys,
     userKeys |-> [tokenAccounts |-> <<getTokenAccountByOwnerAndMint(PublicKey(fromToken)),
                                       getTokenAccountByOwnerAndMint(PublicKey(toToken))>>,
                   owner |-> wal.publicKey],
     amountIn |-> quote.amountIn,
     amountOut |-> quote.minAmountOut,
     fixedSide |-> "in",
     config |-> [bypassAssociatedCheck |-> FALSE],
     computeBudgetConfig |-> [microLamports |-> maxLamports]]

\* instructions.filter(Boolean)
FilterBoolean(ixs) == SelectSeq(ixs, LAMBDA i : i \notin {Null, Undefined})

\* lines 73-81: the transaction getSwapTransaction returns
BuildTransactionCachedBlockhash(recentBlockhashForSwap, wal, swapTransaction) ==
    [t |-> "transaction",
     blockhash |-> "hash1",
     lastValidBlockHeight |-> 101,
     feePayer |-> wal.publicKey,
     instructions |-> FilterBoolean(swapTransaction.innerTransactions[1].instructions)]

BuildTransaction(recentBlockhashForSwap, wal, swapTransaction) ==
    [t |-> "transaction",
     blockhash |-> recentBlockhashForSwap.blockhash,
     lastValidBlockHeight |-> recentBlockhashForSwap.lastValidBlockHeight,
     feePayer |-> wal.publicKey,
     instructions |-> FilterBoolean(swapTransaction.innerTransactions[1].instructions)]

\* lines 85-90: the arguments of connection.sendTransaction
SendParamsWithPreflight(tx, wal) ==
    [transaction |-> tx, signers |-> <<wal.payer>>,
     options |-> [skipPreflight |-> FALSE, maxRetries |-> 2]]

SendParams(tx, wal) ==
    [transaction |-> tx, signers |-> <<wal.payer>>,
     options |-> [skipPreflight |-> TRUE, maxRetries |-> 2]]

\* lines 96-98: the arguments of connection.simulateTransaction
SimulateParams(tx, wal) == [transaction |-> tx, signers |-> <<wal.payer>>]

\* a request to the SDK or the node, and its reply once it has come
Request(api, params) == [api |-> api, params |-> params, reply |-> Undefined]

Replied(net, reply) == [net EXCEPT ![Len(net)].reply = reply]


----------------------------------------------------------------------------
(* State after construction *)

NoLocals == [computeArgs |-> Undefined, quote |-> Undefined, swapTransaction |-> Undefined,
             recentBlockhashForSwap |-> Undefined]

NoCall == [op |-> "none", args |-> <<>>, pc |-> "idle", net |-> <<>>,
           locals |-> NoLocals, value |-> Undefined]

NoLoad == [how |-> "none", status |-> "none", value |-> Undefined, json |-> Undefined]

Init ==
    /\ allPoolKeysJson = Undefined
    /\ connection = [endpoint |-> "RPC_URL", commitment |-> "confirmed"]
    /\ wallet = [publicKey |-> [pk |-> "walletPublicKey"], payer |-> "walletKeypair"]
    /\ loadsFetching = 0
    /\ loadsParsing = 0
    /\ lastLoad = NoLoad
    /\ call = NoCall

----------------------------------------------------------------------------
(* loadPoolKeys *)

\* the call is made: fetch(...) is issued and awaited
LoadStart ==
    /\ loadsFetching + loadsParsing < MaxLoads
    /\ loadsFetching' = loadsFetching + 1
    /\ UNCHANGED <<allPoolKeysJson, connection, wallet, loadsParsing, lastLoad, call>>

\* fetch rejects: the await throws and nothing catches it
LoadFetchRejects ==
    /\ loadsFetching > 0
    /\ lastLoad' = [how |-> "fetchRejected", status |-> "threw", value |-> FetchError,
                    json |-> Undefined]
    /\ loadsFetching' = loadsFetching - 1
    /\ UNCHANGED <<allPoolKeysJson, connection, wallet, loadsParsing, call>>

\* fetch resolves with ok = false: return []
LoadNotOk ==
    /\ loadsFetching > 0
    /\ lastLoad' = [how |-> "notOk", status |-> "returned", value |-> Arr(<<>>), json |-> Undefined]
    /\ allPoolKeysJson' = AfterNotOk(allPoolKeysJson)
    /\ loadsFetching' = loadsFetching - 1
    /\ UNCHANGED <<connection, wallet, loadsParsing, call>>

\* fetch resolves with ok = true: json() is awaited
LoadFetchOk ==
    /\ loadsFetching > 0
    /\ loadsFetching' = loadsFetching - 1
    /\ loadsParsing' = loadsParsing + 1
    /\ UNCHANGED <<allPoolKeysJson, connection, wallet, lastLoad, call>>

\* json() rejects (the body is not JSON, or the connection drops)
LoadJsonRejects ==
    /\ loadsParsing > 0
    /\ lastLoad' = [how |-> "jsonRejected", status |-> "threw", value |-> SyntaxError,
                    json |-> Undefined]
    /\ loadsParsing' = loadsParsing - 1
    /\ UNCHANGED <<allPoolKeysJson, connection, wallet, loadsFetching, call>>

\* json() resolves: the merged list is stored and the call returns undefined
LoadJsonOk ==
    /\ loadsParsing > 0
    /\ \E liquidityJson \in RegistryDocs :
        /\ allPoolKeysJson' = Arr(MergePools(liquidityJson))
        /\ lastLoad' = [how |-> "ok", status |-> "returned", value |-> Undefined,
                        json |-> liquidityJson]
    /\ loadsParsing' = loadsParsing - 1
    /\ UNCHANGED <<connection, wallet, loadsFetching, call>>

----------------------------------------------------------------------------
(* findPoolInfoForTokens: synchronous *)

CallSettled == call.pc \in {"idle", "returned", "threw"}

Find ==
    /\ CallSettled
    /\ \E mintA, mintB \in Mints :
        LET r == findPoolInfoForTokens(allPoolKeysJson, mintA, mintB)
        IN  call' = [op |-> "findPoolInfoForTokens", args |-> <<mintA, mintB>>,
                     pc |-> r.status, net |-> <<>>, locals |-> NoLocals, value |-> r.value]
    /\ UNCHANGED <<allPoolKeysJson, connection, wallet, loadsFetching, loadsParsing, lastLoad>>

----------------------------------------------------------------------------
(* calcAmountOut called directly *)

instance == <<allPoolKeysJson, connection, wallet>>
loads == <<loadsFetching, loadsParsing, lastLoad>>

\* the call is made: Liquidity.fetchInfo is issued and awaited
CalcStart ==
    /\ CallSettled
    /\ \E poolKeys \in PoolKeysArgs, rawAmountIn \in 1..MaxAmount, swapInDirection \in BOOLEAN :
        call' = [op |-> "calcAmountOut", args |-> <<poolKeys, rawAmountIn, swapInDirection>>,
                 pc |-> "calc:fetchInfo",
                 net |-> <<Request("Liquidity.fetchInfo",
                                   [connection |-> connection, poolKeys |-> poolKeys])>>,
                 locals |-> NoLocals, value |-> Undefined]
    /\ UNCHANGED <<instance, loads>>

CalcFetchInfoFails ==
    /\ call.pc = "calc:fetchInfo"
    /\ \E e \in Errors :
        call' = [call EXCEPT !.pc = "threw", !.net = Replied(@, e), !.value = e]
    /\ UNCHANGED <<instance, loads>>

CalcFetchInfoOk ==
    /\ call.pc = "calc:fetchInfo"
    /\ \E poolInfo \in PoolInfos(call.args[1]) :
        call' = [call EXCEPT
                   !.pc = "returned",
                   !.net = Replied(@, poolInfo),
                   !.locals.computeArgs =
                       ComputeArgs(call.args[1], poolInfo, call.args[2], call.args[3]),
                   !.value = calcAmountOut(call.args[1], poolInfo, call.args[2], call.args[3])]
    /\ UNCHANGED <<instance, loads>>

----------------------------------------------------------------------------
(* getSwapTransaction *)

\* the call is made: calcAmountOut is entered and its Liquidity.fetchInfo awaited
SwapStart ==
    /\ CallSettled
    /\ \E tokens \in TokenPairs, amount \in 1..MaxAmount,
          poolKeys \in PoolKeysArgs, maxLamports \in MaxLamportsArgs :
        call' = [op |-> "getSwapTransaction",
                 args |-> <<tokens[1], tokens[2], amount, poolKeys,
                            DefaultParam(maxLamports, DefaultMaxLamports)>>,
                 pc |-> "swap:fetchInfo",
                 net |-> <<Request("Liquidity.fetchInfo",
                                   [connection |-> connection, poolKeys |-> poolKeys])>>,
                 locals |-> NoLocals, value |-> Undefined]
    /\ UNCHANGED <<instance, loads>>

SwapFetchInfoFails ==
    /\ call.pc = "swap:fetchInfo"
    /\ \E e \in Errors :
        call' = [call EXCEPT !.pc = "threw", !.net = Replied(@, e), !.value = e]
    /\ UNCHANGED <<instance, loads>>

\* the quote is computed; the two PublicKeys are built (either may throw); then
\* Liquidity.makeSwapInstructionSimple is issued and awaited
SwapFetchInfoOk ==
    /\ call.pc = "swap:fetchInfo"
    /\ \E poolInfo \in PoolInfos(call.args[4]) :
        LET fromToken == call.args[1]
            toToken == call.args[2]
            poolKeys == call.args[4]
            dir == QuoteDirection(fromToken, toToken, poolKeys)
            quote == calcAmountOut(poolKeys, poolInfo, call.args[3], dir)
            quoted == [call EXCEPT
                         !.net = Replied(@, poolInfo),
                         !.locals.computeArgs =
                             ComputeArgs(poolKeys, poolInfo, call.args[3], dir),
                         !.locals.quote = quote]
        IN  IF IsPublicKeyInput(fromToken) /\ IsPublicKeyInput(toToken)
            THEN call' = [quoted EXCEPT
                            !.pc = "swap:makeSwap",
                            !.net = Append(@, Request("Liquidity.makeSwapInstructionSimple",
                                       SwapParams(connection, wallet, poolKeys, fromToken,
                                                  toToken, quote, call.args[5])))]
            ELSE call' = [quoted EXCEPT !.pc = "threw", !.value = InvalidPublicKey]
    /\ UNCHANGED <<instance, loads>>

SwapMakeSwapFails ==
    /\ call.pc = "swap:makeSwap"
    /\ \E e \in Errors :
        call' = [call EXCEPT !.pc = "threw", !.net = Replied(@, e), !.value = e]
    /\ UNCHANGED <<instance, loads>>

\* the instruction is there: connection.getLatestBlockhash is issued and awaited
SwapMakeSwapOk ==
    /\ call.pc = "swap:makeSwap"
    /\ \E swapTransaction \in SwapTransactions :
        call' = [call EXCEPT
                   !.pc = "swap:blockhash",
                   !.net = Append(Replied(@, swapTransaction),
                                  Request("connection.getLatestBlockhash", <<>>)),
                   !.locals.swapTransaction = swapTransaction]
    /\ UNCHANGED <<instance, loads>>

SwapBlockhashFails ==
    /\ call.pc = "swap:blockhash"
    /\ \E e \in Errors :
        call' = [call EXCEPT !.pc = "threw", !.net = Replied(@, e), !.value = e]
    /\ UNCHANGED <<instance, loads>>

\* the transaction is assembled and returned
SwapBlockhashOk ==
    /\ call.pc = "swap:blockhash"
    /\ \E recentBlockhashForSwap \in LatestBlockhashes :
        call' = [call EXCEPT
                   !.pc = "returned",
                   !.net = Replied(@, recentBlockhashForSwap),
                   !.locals.recentBlockhashForSwap = recentBlockhashForSwap,
                   !.value = BuildTransaction(recentBlockhashForSwap, wallet,
                                              call.locals.swapTransaction)]
    /\ UNCHANGED <<instance, loads>>

----------------------------------------------------------------------------
(* sendTransaction, simulateTransaction *)

\* transactions a caller may hand in
TxArgs ==
    { [t |-> "transaction", blockhash |-> b.blockhash,
       lastValidBlockHeight |-> b.lastValidBlockHeight,
       feePayer |-> PublicKey("walletPublicKey"), instructions |-> <<Ix("swap")>>] :
      b \in LatestBlockhashes }

SendStart ==
    /\ CallSettled
    /\ \E tx \in TxArgs :
        call' = [op |-> "sendTransaction", args |-> <<tx>>, pc |-> "send:await",
                 net |-> <<Request("connection.sendTransaction", SendParams(tx, wallet))>>,
                 locals |-> NoLocals, value |-> Undefined]
    /\ UNCHANGED <<instance, loads>>

SendFails ==
    /\ call.pc = "send:await"
    /\ \E e \in Errors :
        call' = [call EXCEPT !.pc = "threw", !.net = Replied(@, e), !.value = e]
    /\ UNCHANGED <<instance, loads>>

SendOk ==
    /\ call.pc = "send:await"
    /\ \E txid \in TxIds :
        call' = [call EXCEPT !.pc = "returned", !.net = Replied(@, txid), !.value = txid]
    /\ UNCHANGED <<instance, loads>>

SimulateStart ==
    /\ CallSettled
    /\ \E tx \in TxArgs :
        call' = [op |-> "simulateTransaction", args |-> <<tx>>, pc |-> "simulate:await",
                 net |-> <<Request("connection.simulateTransaction",
                                   SimulateParams(tx, wallet))>>,
                 locals |-> NoLocals, value |-> Undefined]
    /\ UNCHANGED <<instance, loads>>

SimulateFails ==
    /\ call.pc = "simulate:await"
    /\ \E e \in Errors :
        call' = [call EXCEPT !.pc = "threw", !.net = Replied(@, e), !.value = e]
    /\ UNCHANGED <<instance, loads>>

SimulateOk ==
    /\ call.pc = "simulate:await"
    /\ \E r \in SimulationResults :
        call' = [call EXCEPT !.pc = "returned", !.net = Replied(@, r), !.value = r]
    /\ UNCHANGED <<instance, loads>>

----------------------------------------------------------------------------

Next ==
    \/ LoadStart
    \/ LoadFetchRejects
    \/ LoadNotOk
    \/ LoadFetchOk
    \/ LoadJsonRejects
    \/ LoadJsonOk
    \/ Find
    \/ CalcStart
    \/ CalcFetchInfoFails
    \/ CalcFetchInfoOk
    \/ SwapStart
    \/ SwapFetchInfoFails
    \/ SwapFetchInfoOk
    \/ SwapMakeSwapFails
    \/ SwapMakeSwapOk
    \/ SwapBlockhashFails
    \/ SwapBlockhashOk
    \/ SendStart
    \/ SendFails
    \/ SendOk
    \/ SimulateStart
    \/ SimulateFails
    \/ SimulateOk

Spec == Init /\ [][Next]_vars

\* the registry alone: loadPoolKeys calls and lookups
NextRegistry ==
    \/ LoadStart
    \/ LoadFetchRejects
    \/ LoadNotOk
    \/ LoadFetchOk
    \/ LoadJsonRejects
    \/ LoadJsonOk
    \/ Find

SpecRegistry == Init /\ [][NextRegistry]_vars

\* the quote and transaction operations alone, on an instance as constructed or as
\* one completed loadPoolKeys call leaves it
InitSwap ==
    /\ connection = [endpoint |-> "RPC_URL", commitment |-> "confirmed"]
    /\ wallet = [publicKey |-> [pk |-> "walletPublicKey"], payer |-> "walletKeypair"]
    /\ loadsFetching = 0
    /\ loadsParsing = 0
    /\ call = NoCall
    /\ \/ allPoolKeysJson = Undefined /\ lastLoad = NoLoad
       \/ \E liquidityJson \in RegistryDocs :
            /\ allPoolKeysJson = Arr(MergePools(liquidityJson))
            /\ lastLoad = [how |-> "ok", status |-> "returned", value |-> Undefined,
                           json |-> liquidityJson]

NextSwap ==
    \/ CalcStart
    \/ CalcFetchInfoFails
    \/ CalcFetchInfoOk
    \/ SwapStart
    \/ SwapFetchInfoFails
    \/ SwapFetchInfoOk
    \/ SwapMakeSwapFails
    \/ SwapMakeSwapOk
    \/ SwapBlockhashFails
    \/ SwapBlockhashOk
    \/ SendStart
    \/ SendFails
    \/ SendOk
    \/ SimulateStart
    \/ SimulateFails
    \/ SimulateOk

SpecSwap == InitSwap /\ [][NextSwap]_vars

----------------------------------------------------------------------------
(* Properties of the registry: loadPoolKeys and findPoolInfoForTokens *)

Settled(c) == c.pc \in {"returned", "threw"}

IsFind(c) == c.op = "findPoolInfoForTokens" /\ Settled(c)

\* the entries of an official / unOfficial field, a missing or null one counting as empty
EntriesOf(field) == IF field.t = "array" THEN field.items ELSE <<>>

OfficialOf(json) == IF json.t = "object" THEN EntriesOf(json.official) ELSE <<>>

UnOfficialOf(json) == IF json.t = "object" THEN EntriesOf(json.unOfficial) ELSE <<>>

\* the entry trades exactly the two mints, in either orientation
TradesPair(entry, mintA, mintB) == {entry.baseMint, entry.quoteMint} = {mintA, mintB}

\* the first entry in list order that trades the pair, or null
RECURSIVE FirstTrading(_, _, _)
FirstTrading(items, mintA, mintB) ==
    IF items = <<>> THEN Null
    ELSE IF TradesPair(Head(items), mintA, mintB) THEN Head(items)
    ELSE FirstTrading(Tail(items), mintA, mintB)

NoStoredPoolTrades(list, mintA, mintB) ==
    \/ list = Undefined
    \/ /\ list # Undefined
       /\ \A k \in 1..Len(list.items) : ~TradesPair(list.items[k], mintA, mintB)

\* C1: after a loadPoolKeys call whose fetch fails (response not ok, or fetch rejects)
\* the call has completed without throwing and the instance's pool list is empty.
\* lastLoad is the most recently completed call and only a completing loadPoolKeys
\* writes the list, so the list read here is the one that call left.
C1_FetchFailureYieldsEmptyList ==
    lastLoad.how \in {"notOk", "fetchRejected"} =>
        /\ lastLoad.status = "returned"
        /\ allPoolKeysJson = Arr(<<>>)

\* C2: whenever no stored pool trades the requested pair (nothing loaded yet, a failed
\* load, a loaded list without the pair) findPoolInfoForTokens returns null and does
\* not throw.
C2_LookupFailureReturnsNull ==
    [][ \A mintA, mintB \in Mints :
          ( /\ call' # call
            /\ IsFind(call')
            /\ call'.args = <<mintA, mintB>>
            /\ NoStoredPoolTrades(allPoolKeysJson, mintA, mintB) )
          => (call'.pc = "returned" /\ call'.value = Null) ]_vars

\* C3: on every loaded registry and for every pair of mints, looking up (A, B) and
\* (B, A) selects the same entry: the first in list order whose base and quote mints
\* are A and B in either order, or null when there is none.
C3_LookupIsSymmetric ==
    allPoolKeysJson # Undefined =>
        \A mintA, mintB \in Mints :
            LET ab == findPoolInfoForTokens(allPoolKeysJson, mintA, mintB)
                ba == findPoolInfoForTokens(allPoolKeysJson, mintB, mintA)
                first == FirstTrading(allPoolKeysJson.items, mintA, mintB)
            IN  /\ ab = ba
                /\ ab.status = "returned"
                /\ ab.value = IF first = Null THEN Null ELSE jsonInfo2PoolKeys(first)

\* a registry holding the pair in both orientations, pool2 (mintB/mintA) first, and a
\* lookup of (mintA, mintB) that returned pool2
C3_Witness ==
    /\ allPoolKeysJson # Undefined
    /\ Len(allPoolKeysJson.items) = 2
    /\ allPoolKeysJson.items[1].id = "pool2"
    /\ allPoolKeysJson.items[2].id = "pool1"
    /\ IsFind(call)
    /\ call.args = <<"mintA", "mintB">>
    /\ call.pc = "returned"
    /\ call.value = jsonInfo2PoolKeys(allPoolKeysJson.items[1])

\* C10: once a loadPoolKeys call has completed successfully, and until the next call
\* completes, the pool list is the response's official entries followed by its
\* unOfficial entries and nothing else (whatever was stored before and whichever other
\* calls are still in flight: the call whose response completes last decides the
\* list), so a pair listed in both arrays resolves to the official pool.
C10_LoadReplacesList ==
    lastLoad.how = "ok" =>
        LET official == OfficialOf(lastLoad.json)
            unOfficial == UnOfficialOf(lastLoad.json)
        IN  /\ allPoolKeysJson = Arr(official \o unOfficial)
            /\ \A mintA, mintB \in Mints :
                 ( /\ FirstTrading(official, mintA, mintB) # Null
                   /\ FirstTrading(unOfficial, mintA, mintB) # Null )
                 => findPoolInfoForTokens(allPoolKeysJson, mintA, mintB).value
                      = jsonInfo2PoolKeys(FirstTrading(official, mintA, mintB))

\* a second successful load, completing while another call is still in flight, whose
\* response lists the pair in both arrays, and a lookup that returned the official pool
C10_Witness ==
    /\ lastLoad.how = "ok"
    /\ loadsFetching + loadsParsing > 0
    /\ OfficialOf(lastLoad.json) # <<>>
    /\ UnOfficialOf(lastLoad.json) # <<>>
    /\ OfficialOf(lastLoad.json)[1].id = "pool1"
    /\ UnOfficialOf(lastLoad.json)[1].id = "pool2"
    /\ IsFind(call)
    /\ call.args = <<"mintB", "mintA">>
    /\ call.value = jsonInfo2PoolKeys(OfficialOf(lastLoad.json)[1])

----------------------------------------------------------------------------
(* Properties of calcAmountOut, getSwapTransaction, sendTransaction, simulateTransaction *)

IsError(v) == v \in Errors

IsCalc(c) == c.op = "calcAmountOut"

IsSwap(c) == c.op = "getSwapTransaction"

\* the call has got its pool info and formed its quote
Quoted(c) == c.locals.computeArgs # Undefined

\* the call has issued its request for the swap instruction
AskedForSwap(c) == IsSwap(c) /\ Len(c.net) >= 2

\* C4: in every calcAmountOut call that returned, swapInDirection = true makes the
\* input token (baseMint, baseDecimals) and the output token (quoteMint,
\* quoteDecimals), false the reverse; either way the two mints are the pool's two
\* mints, each used once, each with its own decimals as the chain has them.
C4_DirectionSelectsInputOutput ==
    (IsCalc(call) /\ call.pc = "returned") =>
        LET poolKeys == call.args[1]
            swapInDirection == call.args[3]
            poolInfo == call.net[1].reply
            tokenIn == call.value.amountIn.token
            tokenOut == call.value.amountOut.token
            base == [mint |-> poolKeys.baseMint, decimals |-> poolInfo.baseDecimals]
            quote == [mint |-> poolKeys.quoteMint, decimals |-> poolInfo.quoteDecimals]
            in == [mint |-> tokenIn.mint, decimals |-> tokenIn.decimals]
            out == [mint |-> tokenOut.mint, decimals |-> tokenOut.decimals]
        IN  /\ swapInDirection => (in = base /\ out = quote)
            /\ ~swapInDirection => (in = quote /\ out = base)
            /\ in.mint # out.mint
            /\ in.decimals = MintDecimals(in.mint.pk)
            /\ out.decimals = MintDecimals(out.mint.pk)
            /\ call.value.minAmountOut.token = tokenOut
            /\ call.value.fee.token = tokenIn

\* a quote in the reverse direction that came back, on a pool whose mints differ in
\* decimals
C4_Witness ==
    /\ IsCalc(call)
    /\ call.pc = "returned"
    /\ call.args[3] = FALSE
    /\ call.value.amountIn.token.mint = call.args[1].quoteMint
    /\ call.value.amountIn.token.decimals # call.value.amountOut.token.decimals

\* C5: every quote, direct or inside getSwapTransaction, hands slippage 5/100 to the
\* SDK computation, and getSwapTransaction asks for the swap with that quote's
\* amountIn as amountIn and its minAmountOut as amountOut, the input side fixed.
C5_FixedSlippage ==
    /\ Quoted(call) =>
          /\ call.locals.computeArgs.slippage = [numerator |-> 5, denominator |-> 100]
          /\ IsSwap(call) =>
               /\ call.locals.quote.amountIn = call.locals.computeArgs.amountIn
               /\ call.locals.quote.minAmountOut
                    = computeAmountOut(call.locals.computeArgs).minAmountOut
    /\ AskedForSwap(call) =>
          /\ call.net[2].api = "Liquidity.makeSwapInstructionSimple"
          /\ call.net[2].params.amountIn = call.locals.quote.amountIn
          /\ call.net[2].params.amountOut = call.locals.quote.minAmountOut
          /\ call.net[2].params.fixedSide = "in"

\* a swap requested on a quote whose minimum is below its expected output
C5_Witness ==
    /\ AskedForSwap(call)
    /\ call.locals.quote.minAmountOut.raw < call.locals.quote.amountOut.raw
    /\ call.net[2].params.amountOut.raw = call.locals.quote.minAmountOut.raw

\* C6: sendTransaction submits exactly once, with skipPreflight = true and
\* maxRetries = 2; simulateTransaction simulates exactly once and never submits; and
\* when a delegated call of any of the four operations fails, the operation throws
\* that very error, that call is the last one it made, and no step of these
\* operations changes the pool list, the connection or the wallet.
C6_FailuresPropagate ==
    [][ /\ call'.op = "sendTransaction" =>
             /\ Len(call'.net) = 1
             /\ call'.net[1].api = "connection.sendTransaction"
             /\ call'.net[1].params.transaction = call'.args[1]
             /\ call'.net[1].params.signers = <<wallet.payer>>
             /\ call'.net[1].params.options = [skipPreflight |-> TRUE, maxRetries |-> 2]
        /\ call'.op = "simulateTransaction" =>
             /\ Len(call'.net) = 1
             /\ call'.net[1].api = "connection.simulateTransaction"
             /\ call'.net[1].params.transaction = call'.args[1]
        /\ \A k \in 1..Len(call'.net) :
             IsError(call'.net[k].reply) =>
                /\ k = Len(call'.net)
                /\ call'.pc = "threw"
                /\ call'.value = call'.net[k].reply
        /\ allPoolKeysJson' = allPoolKeysJson
        /\ connection' = connection
        /\ wallet' = wallet ]_vars

\* a submission the node rejected on an instance that holds a loaded pool list
C6_Witness ==
    /\ call.op = "sendTransaction"
    /\ call.pc = "threw"
    /\ call.value \in Errors
    /\ call.net[1].reply = call.value
    /\ allPoolKeysJson # Undefined
    /\ allPoolKeysJson.items # <<>>

\* the requests a getSwapTransaction call makes, in order
SwapSteps ==
    <<"Liquidity.fetchInfo", "Liquidity.makeSwapInstructionSimple",
      "connection.getLatestBlockhash">>

\* C8: a getSwapTransaction call requests pool info, then the swap instruction, then
\* the latest block hash, each only after the previous reply has come and was no
\* error; the transaction it returns carries the block hash and lastValidBlockHeight
\* that this call's getLatestBlockhash replied, the wallet's public key as fee payer
\* and the instructions of the swap it was given; it never submits or simulates; and a
\* call that threw made no request after the step that failed.
C8_SwapStepsInOrder ==
    IsSwap(call) =>
        /\ Len(call.net) \in 1..3
        /\ \A k \in 1..Len(call.net) :
             /\ call.net[k].api = SwapSteps[k]
             /\ k < Len(call.net) =>
                  (call.net[k].reply # Undefined /\ ~IsError(call.net[k].reply))
        /\ call.pc = "returned" =>
             /\ Len(call.net) = 3
             /\ call.value.blockhash = call.net[3].reply.blockhash
             /\ call.value.lastValidBlockHeight = call.net[3].reply.lastValidBlockHeight
             /\ call.value.feePayer = wallet.publicKey
             /\ \A i \in 1..Len(call.value.instructions) :
                  \E j \in 1..Len(call.net[2].reply.innerTransactions[1].instructions) :
                     call.value.instructions[i]
                        = call.net[2].reply.innerTransactions[1].instructions[j]
        /\ call.pc = "threw" =>
             \/ IsError(call.net[Len(call.net)].reply)
             \/ (Len(call.net) = 1 /\ call.value = InvalidPublicKey)

\* a transaction returned with the second of the two block hashes the node may give
C8_Witness ==
    /\ IsSwap(call)
    /\ call.pc = "returned"
    /\ call.net[3].reply.blockhash = "hash2"
    /\ call.value.blockhash = "hash2"

\* C9: whatever fromToken and toToken are, getSwapTransaction quotes with
\* swapInDirection = false: the amountIn it asks the swap for is in the pool's quote
\* mint and the amountOut in its base mint; fromToken and toToken only make the two
\* placeholder token accounts.
C9_QuoteIgnoresTokens ==
    /\ (IsSwap(call) /\ Quoted(call)) =>
          /\ call.locals.computeArgs
               = ComputeArgs(call.args[4], call.net[1].reply, call.args[3], FALSE)
          /\ call.locals.quote.amountIn.token.mint = call.args[4].quoteMint
          /\ call.locals.quote.minAmountOut.token.mint = call.args[4].baseMint
    /\ AskedForSwap(call) =>
          /\ call.net[2].params.amountIn.token.mint = call.args[4].quoteMint
          /\ call.net[2].params.amountOut.token.mint = call.args[4].baseMint
          /\ call.net[2].params.userKeys.tokenAccounts
               = <<getTokenAccountByOwnerAndMint(PublicKey(call.args[1])),
                   getTokenAccountByOwnerAndMint(PublicKey(call.args[2]))>>

\* a swap requested with fromToken the pool's base mint
C9_Witness ==
    /\ AskedForSwap(call)
    /\ PublicKey(call.args[1]) = call.args[4].baseMint
    /\ call.net[2].params.amountIn.token.mint = call.args[4].quoteMint

----------------------------------------------------------------------------
(* Shared state across calls *)

\* how a lookup ends on a given pool list
LookupOutcome(list, mintA, mintB) ==
    IF list = Undefined THEN <<"threw", TypeError>>
    ELSE LET first == FirstTrading(list.items, mintA, mintB)
         IN  <<"returned", IF first = Null THEN Null ELSE jsonInfo2PoolKeys(first)>>

\* how a settled calcAmountOut / getSwapTransaction / sendTransaction /
\* simulateTransaction call must have ended, given its arguments, the replies it got
\* and the connection and wallet of the constructor
FetchedOutcome(c) ==
    LET last == c.net[Len(c.net)].reply
    IN  IF IsError(last) THEN <<"threw", last>>
        ELSE IF IsCalc(c)
             THEN <<"returned", calcAmountOut(c.args[1], last, c.args[2], c.args[3])>>
        ELSE IF IsSwap(c)
             THEN IF Len(c.net) = 3
                  THEN <<"returned",
                         [t |-> "transaction",
                          blockhash |-> last.blockhash,
                          lastValidBlockHeight |-> last.lastValidBlockHeight,
                          feePayer |-> PublicKey("walletPublicKey"),
                          instructions |->
                              SelectSeq(c.net[2].reply.innerTransactions[1].instructions,
                                        LAMBDA i : i # Null)]>>
                  ELSE <<"threw", InvalidPublicKey>>
        ELSE <<"returned", last>>

\* C7 as stated: no operation's result depends on an instance field an earlier or
\* concurrent call wrote.  For the operations that fetch, the result is fixed by the
\* arguments and the replies; for findPoolInfoForTokens, which fetches nothing, two
\* calls with the same arguments end the same way whatever ran in between.
C7_NoSharedState ==
    [][ /\ (IsFind(call) /\ IsFind(call') /\ call'.args = call.args)
             => (call'.pc = call.pc /\ call'.value = call.value)
        /\ (call' # call /\ Settled(call') /\ ~IsFind(call'))
             => <<call'.pc, call'.value>> = FetchedOutcome(call') ]_vars

\* C7 amended: the pool list is the one piece of state shared across calls.  Only a
\* loadPoolKeys call whose fetch and json() both succeeded writes it (the connection
\* and the wallet are never written), only findPoolInfoForTokens reads it, its result
\* being fixed by its arguments and the list as it stands at the call, and the result
\* of every other operation is fixed by its arguments and the replies it got.
C7_PoolListIsTheSharedState ==
    [][ /\ connection' = connection
        /\ wallet' = wallet
        /\ allPoolKeysJson' # allPoolKeysJson =>
             /\ loadsParsing' = loadsParsing - 1
             /\ lastLoad'.how = "ok"
             /\ allPoolKeysJson'
                  = Arr(OfficialOf(lastLoad'.json) \o UnOfficialOf(lastLoad'.json))
        /\ (call' # call /\ IsFind(call'))
             => <<call'.pc, call'.value>>
                  = LookupOutcome(allPoolKeysJson, call'.args[1], call'.args[2])
        /\ (call' # call /\ Settled(call') /\ ~IsFind(call'))
             => <<call'.pc, call'.value>> = FetchedOutcome(call') ]_vars

\* a lookup that found a pool (so a load had stored one) while another loadPoolKeys
\* call is in flight
C7_Witness ==
    /\ IsFind(call)
    /\ call.pc = "returned"
    /\ call.value # Null
    /\ lastLoad.how = "ok"
    /\ loadsFetching + loadsParsing > 0

====
